---- MODULE Spec2Model ----
(***************************************************************************)
(* Model of cis_benchmark_excel_converter.py: the text normalizer          *)
(* (clean_text), the recommendation parser (extract_recommendations and    *)
(* its helpers), the workbook builder (write_excel, create_sheet) and the  *)
(* pipeline of main.                                                       *)
(*                                                                         *)
(* Text is modelled as a sequence of tokens.  A token is a TLA+ string     *)
(* standing for exactly that piece of text: a single character ("1", ".",  *)
(* " ", "\n") or a whole word or phrase ("Page", "(Automated)",            *)
(* "Profile Applicability:").  A Python str is the concatenation of its    *)
(* tokens; the regular expressions and str methods of the source are       *)
(* computed over the tokens as the source computes them over characters.   *)
(***************************************************************************)
EXTENDS Integers, Sequences, FiniteSets, TLC

VARIABLES
    pc,          \* position of the running function / pipeline
    cs, c1, c2,  \* clean_text: the input line, one and two applications
    lines, i, current, recs, result, lastSec, examined,
                 \* extract_recommendations: its locals, the returned list,
                 \* the last section extraction and the lines the scan examined
    wrecs, categories, cats, sorted_cats, sheets, saved,
                 \* write_excel: its arguments, its locals, the sheets created
    pdf, config_present, start_page, os_type, filename,
                 \* main: the input document, the configuration file, the CLI
    title, text  \* main: the values returned by the earlier stages

vars == <<pc, cs, c1, c2, lines, i, current, recs, result, lastSec, examined,
          wrecs, categories, cats, sorted_cats, sheets, saved,
          pdf, config_present, start_page, os_type, filename, title, text>>

cleanVars == <<cs, c1, c2>>
parseVars == <<lines, i, current, recs, result, lastSec, examined>>
excelVars == <<wrecs, categories, cats, sorted_cats, sheets, saved>>
mainVars  == <<pdf, config_present, start_page, os_type, filename, title, text>>

----------------------------------------------------------------------------
(* Bounds of the model *)

MaxLineLen == 7     \* tokens in a line given to clean_text
MaxLines   == 5     \* lines of a text given to extract_recommendations
MaxRecs    == 3     \* records of a list given to write_excel
MaxCats    == 11    \* categories of the widest configuration
MaxPages   == 2     \* pages of the input document

----------------------------------------------------------------------------
(* Generic sequence helpers *)

Min(a, b) == IF a < b THEN a ELSE b
Max(a, b) == IF a > b THEN a ELSE b

\* Python s[a:b] with 0-based a, b already clipped to 0..len(s)
Slice(s, a, b) == IF b <= a THEN <<>> ELSE SubSeq(s, a + 1, b)

\* all sequences over S of length 0..n
SeqsUpTo(S, n) == UNION {[1..k -> S] : k \in 0..n}

RECURSIVE JoinWith(_, _)
\* sep.join(ss)
JoinWith(sep, ss) ==
    IF ss = <<>> THEN <<>>
    ELSE IF Len(ss) = 1 THEN ss[1]
    ELSE ss[1] \o sep \o JoinWith(sep, Tail(ss))

Contains(s, t) == \E k \in 1..Len(s) : s[k] = t

----------------------------------------------------------------------------
(* Character classes of the tokens *)

DigitToks == <<"0", "1", "2", "3", "4", "5", "6", "7", "8", "9">>
IsDigit(t) == \E d \in 1..10 : DigitToks[d] = t
IsSpace(t) == t \in {" ", "\n"}

SECTIONS == <<"Profile Applicability:", "Description:", "Rationale:", "Impact:",
              "Audit:", "Remediation:", "Default Value:", "References:",
              "Additional Information:">>

IsSection(t) == \E k \in 1..Len(SECTIONS) : SECTIONS[k] = t

AutomationTags == {"(Automated)", "(Manual)"}
LevelTags == {"(L1)", "(L2)"}

\* whether the first, resp. last, character of a token is a word character
\* of the regex: false for blanks, the dot and the parenthesised tags; a section label
\* starts with a letter and ends with a colon
WordStart(t) == ~IsSpace(t) /\ t # "." /\ t \notin AutomationTags \cup LevelTags
WordEnd(t)   == WordStart(t) /\ ~IsSection(t)

\* "Page" under re.IGNORECASE
IsPageWord_CaseSensitive(t) == t = "Page"
IsPageWord(t) == t \in {"Page", "page", "PAGE"}

----------------------------------------------------------------------------
(* clean_text: PAGE_PATTERN.sub('', text).  PAGE_PATTERN is the word Page   *)
(* (any case) after a word boundary, blanks, digits, a word boundary.      *)

RECURSIVE RunEnd(_, _, _)
\* the index after the longest run of tokens of one class starting at p
RunEnd(s, p, isDigit) ==
    IF p <= Len(s) /\ (IF isDigit THEN IsDigit(s[p]) ELSE IsSpace(s[p]))
    THEN RunEnd(s, p + 1, isDigit)
    ELSE p

\* PAGE_PATTERN matched at index p: the index after the match, or 0.  The
\* quantifiers are greedy and backtracking to a shorter run never helps: a
\* shorter run of blanks is followed by a blank, a shorter run of digits by a
\* digit (no word boundary between two digits).
\* a: the index after the blanks, b: the index after the digits
PageMatchDigits(s, a, b) ==
    IF b = a THEN 0
    ELSE IF b <= Len(s) /\ WordStart(s[b]) THEN 0
    ELSE b

PageMatchBlanks(s, p, a) ==
    IF a = p + 1 THEN 0 ELSE PageMatchDigits(s, a, RunEnd(s, a, TRUE))

PageMatchEnd(s, p) ==
    IF ~(p <= Len(s) /\ IsPageWord(s[p])) THEN 0
    ELSE IF p > 1 /\ WordEnd(s[p - 1]) THEN 0
    ELSE PageMatchBlanks(s, p, RunEnd(s, p + 1, FALSE))

RECURSIVE SubPage(_, _)
\* e: the end of the match at p, 0 for none
SubPageAt(s, p, e) ==
    IF e > 0 THEN SubPage(s, e) ELSE <<s[p]>> \o SubPage(s, p + 1)

\* re.sub from index p on: leftmost matches, not overlapping, one pass
SubPage(s, p) ==
    IF p > Len(s) THEN <<>> ELSE SubPageAt(s, p, PageMatchEnd(s, p))

clean_text(s) == SubPage(s, 1)

----------------------------------------------------------------------------
(* str.strip, str.splitlines *)

RECURSIVE LStrip(_)
LStrip(s) == IF s # <<>> /\ IsSpace(Head(s)) THEN LStrip(Tail(s)) ELSE s

RECURSIVE RStrip(_)
RStrip(s) == IF s # <<>> /\ IsSpace(s[Len(s)]) THEN RStrip(SubSeq(s, 1, Len(s) - 1)) ELSE s

Strip(s) == RStrip(LStrip(s))

RECURSIVE SplitLinesFrom(_, _, _)
\* str.splitlines: a line ends at each "\n"; no empty last line after a final one
SplitLinesFrom(s, p, cur) ==
    IF p > Len(s) THEN (IF cur = <<>> THEN <<>> ELSE <<cur>>)
    ELSE IF s[p] = "\n" THEN <<cur>> \o SplitLinesFrom(s, p + 1, <<>>)
    ELSE SplitLinesFrom(s, p + 1, Append(cur, s[p]))

SplitLines(s) == SplitLinesFrom(s, 1, <<>>)

----------------------------------------------------------------------------
(* TITLE_PATTERN: at the start of the line a dotted number of two or more *)
(* segments (group 1), blanks, an optional level tag "(L<digits>)"        *)
(* (group 2), blanks, and the rest of the line (group 3).                  *)

RECURSIVE DottedEnd(_, _)
\* e: the index after the digits that follow index p
DottedNext(s, p, e) ==
    IF p <= Len(s) /\ s[p] = "." /\ e > p + 1 THEN DottedEnd(s, e) ELSE p

\* the repeated ".<digits>" group from index p on: the index after the last one taken
DottedEnd(s, p) == DottedNext(s, p, RunEnd(s, p + 1, TRUE))

\* a: the index after the first digits, e: after the dotted groups
TitleNumberDotted(a, e) == IF e = a THEN 0 ELSE e

TitleNumberFirst(s, a) == IF a = 1 THEN 0 ELSE TitleNumberDotted(a, DottedEnd(s, a))

\* the index after group 1 (a dotted number of two segments or more), or 0
TitleNumberEnd(s) == TitleNumberFirst(s, RunEnd(s, 1, TRUE))

\* group 2 as the claim under check reads it: any parenthesised tag
IsLevelTag_AnyTag(t) == t \in LevelTags \cup AutomationTags
IsLevelTag(t) == t \in LevelTags

\* TITLE_PATTERN.match(s): <<>> for None, else one record of the groups.  Every
\* part after group 1 can match the empty string, so the greedy first attempt
\* succeeds and group 1 is the longest dotted number.
\* e: the index after group 1, a: the index after the blanks that follow it
TitleGroups(s, e, a) ==
    IF a <= Len(s) /\ IsLevelTag(s[a])
    THEN <<[Number |-> SubSeq(s, 1, e - 1),
            Level  |-> <<s[a]>>,
            Title  |-> SubSeq(s, RunEnd(s, a + 1, FALSE), Len(s))]>>
    ELSE <<[Number |-> SubSeq(s, 1, e - 1),
            Level  |-> <<>>,
            Title  |-> SubSeq(s, a, Len(s))]>>

TitleMatchFrom(s, e) == IF e = 0 THEN <<>> ELSE TitleGroups(s, e, RunEnd(s, e, FALSE))

TitleMatch(s) == TitleMatchFrom(s, TitleNumberEnd(s))

IsHeading(s) == TitleMatch(s) # <<>>

StartsWithSection(s) == s # <<>> /\ IsSection(s[1])

----------------------------------------------------------------------------
(* The helpers of the parser.  Line indexes are 0-based as in the source:  *)
(* At(ls, k) is ls[k].                                                     *)

At(ls, k) == ls[k + 1]

LookAhead == 10

\* range(idx + 1, min(idx + 10, len(lines)))
has_profile_applicability(ls, idx) ==
    \E k \in (idx + 1)..(Min(idx + LookAhead, Len(ls)) - 1) :
        Contains(At(ls, k), "Profile Applicability:")

\* the re.match of is_real_test (a dotted number of one or more segments):
\* the number of its parts, 0 for no match
RECURSIVE CountParts(_, _)
CountNext(s, p, e) ==
    IF p <= Len(s) /\ s[p] = "." /\ e > p + 1 THEN 1 + CountParts(s, e) ELSE 0

CountParts(s, p) == CountNext(s, p, RunEnd(s, p + 1, TRUE))

NumberPartsFrom(s, a) == IF a = 1 THEN 0 ELSE 1 + CountParts(s, a)

NumberParts(s) == NumberPartsFrom(s, RunEnd(s, 1, TRUE))

HasAutomationTag(s) == \E t \in AutomationTags : Contains(s, t)

\* parts: len(number.split('.')), 0 when the number does not match
RealTestParts(parts) ==
    IF parts = 0 THEN FALSE
    ELSE IF parts < 2 THEN FALSE
    ELSE TRUE

is_real_test_NoTagCheck(line) == RealTestParts(NumberParts(Strip(line)))
is_real_test(line) ==
    IF ~HasAutomationTag(line) THEN FALSE
    ELSE RealTestParts(NumberParts(Strip(line)))

\* the stop condition of extract_section_content, on the cleaned line
StopsSection(line) == StartsWithSection(line) \/ IsHeading(line)

IsBoundary(raw) == StopsSection(Strip(clean_text(raw)))

RECURSIVE SectionEnd(_, _)
\* the index i at which the while loop of extract_section_content ends
SectionEnd(ls, k) ==
    IF k < Len(ls) /\ ~IsBoundary(At(ls, k)) THEN SectionEnd(ls, k + 1) ELSE k

RECURSIVE SectionLines(_, _, _)
\* the list content: the cleaned, non-empty lines of k .. e-1
\* if line: content.append(line)
ContentLine(line) == IF line # <<>> THEN <<line>> ELSE <<>>

SectionLines(ls, k, e) ==
    IF k >= e THEN <<>>
    ELSE ContentLine(Strip(clean_text(At(ls, k)))) \o SectionLines(ls, k + 1, e)

\* e: the index at which the loop ended
SectionResult(ls, idx, e) ==
    [content |-> JoinWith(<<" ">>, SectionLines(ls, idx + 1, e)), next |-> e]

RECURSIVE SectionEnd_LabelsOnly(_, _)
SectionEnd_LabelsOnly(ls, k) ==
    IF k < Len(ls) /\ ~StartsWithSection(Strip(clean_text(At(ls, k))))
    THEN SectionEnd_LabelsOnly(ls, k + 1) ELSE k

extract_section_content_StopAtLabelsOnly(ls, idx) ==
    SectionResult(ls, idx, SectionEnd_LabelsOnly(ls, idx + 1))

extract_section_content(ls, idx) == SectionResult(ls, idx, SectionEnd(ls, idx + 1))

----------------------------------------------------------------------------
(* A Python dict as the list of its (key, value) pairs in insertion order *)

DictHas(d, k) == \E n \in 1..Len(d) : d[n].key = k

DictGet(d, k, default) ==
    IF DictHas(d, k) THEN d[CHOOSE n \in 1..Len(d) : d[n].key = k].val ELSE default

\* d[k] = v: a present key keeps its place, a new key goes last
DictSet(d, k, v) ==
    IF DictHas(d, k)
    THEN [n \in 1..Len(d) |-> IF d[n].key = k THEN [key |-> k, val |-> v] ELSE d[n]]
    ELSE Append(d, [key |-> k, val |-> v])

----------------------------------------------------------------------------
(* extract_recommendations.  A record is [Number, Level, Title, secs]:     *)
(* secs is the dict of the section keys set so far.  current is <<>> for   *)
(* None and <<r>> for the record r.                                        *)

\* sec[:-1] for each label of SECTIONS
SECTION_KEYS == <<"Profile Applicability", "Description", "Rationale", "Impact",
                  "Audit", "Remediation", "Default Value", "References",
                  "Additional Information">>

\* the first label of SECTIONS the line starts with, 0 for none
FirstSection(line) ==
    IF StartsWithSection(line)
    THEN CHOOSE k \in 1..Len(SECTIONS) :
             SECTIONS[k] = line[1] /\ \A j \in 1..(k - 1) : SECTIONS[j] # line[1]
    ELSE 0

RECURSIVE TitleEnd(_, _)
\* the value of i when the while loop of the multi-line title ends
TitleEnd(ls, k) ==
    IF k + 1 < Len(ls)
       /\ ~StartsWithSection(Strip(At(ls, k + 1)))
       /\ ~IsHeading(Strip(At(ls, k + 1)))
    THEN TitleEnd(ls, k + 1)
    ELSE k

RECURSIVE TitleRest(_, _, _)
\* what the loop appends to the title: " " + lines[k].strip() for k = a .. b
TitleRest(ls, a, b) ==
    IF a > b THEN <<>> ELSE <<" ">> \o Strip(At(ls, a)) \o TitleRest(ls, a + 1, b)

\* f"{Number} {Level} {Title}"
FullTitleLine(r) == r.Number \o <<" ">> \o r.Level \o <<" ">> \o r.Title

\* the record built from the match m and the title lines up to index j
TempRec(ls, idx, m, j) ==
    [Number |-> m.Number,
     Level  |-> m.Level,
     Title  |-> m.Title \o TitleRest(ls, idx + 1, j),
     secs   |-> <<>>]

\* if is_real_test(full_title_line): current = temp_rec
Accept(temp) == IF is_real_test(FullTitleLine(temp)) THEN <<temp>> ELSE <<>>

\* if current: recs.append(current)
Flush(cur, rs) == IF cur # <<>> THEN Append(rs, cur[1]) ELSE rs

\* the branch "if match": j is the index the title loop ends at
HeadingMatched(ls, st, m, j) ==
    IF ~has_profile_applicability(ls, st.i)
    THEN [i |-> st.i, current |-> <<>>, recs |-> Flush(st.current, st.recs)]
    ELSE [i |-> j, current |-> Accept(TempRec(ls, st.i, m, j)),
          recs |-> Flush(st.current, st.recs)]

\* the heading part of the loop body for the match m of the line (<<>>: None):
\* [i, current, recs] after it
HeadingPartOf(ls, st, m) ==
    IF m = <<>> THEN [i |-> st.i, current |-> st.current, recs |-> st.recs]
    ELSE HeadingMatched(ls, st, m[1], TitleEnd(ls, st.i))

HeadingPart(ls, st) == HeadingPartOf(ls, st, TitleMatch(Strip(clean_text(At(ls, st.i)))))

\* current[sec[:-1]] = content; i = next_i - 1; then i += 1.  sec records the
\* section extraction of this iteration.
StoreSection(h, k, x) ==
    [i       |-> (x.next - 1) + 1,
     current |-> <<[h.current[1] EXCEPT
                      !.secs = DictSet(@, SECTION_KEYS[k], x.content)]>>,
     recs    |-> h.recs,
     sec     |-> <<[label |-> h.i, key |-> SECTION_KEYS[k],
                    content |-> x.content, boundary |-> x.next]>>]

\* the section part of the loop body, after the heading part h; k is the
\* first label the line starts with (0: none)
SectionPart(ls, h, k) ==
    IF h.current # <<>> /\ k > 0
    THEN StoreSection(h, k, extract_section_content(ls, h.i))
    ELSE [i |-> h.i + 1, current |-> h.current, recs |-> h.recs, sec |-> <<>>]

\* one iteration of the while loop: the heading part, the section part, i += 1
LoopBody(ls, st) ==
    SectionPart(ls, HeadingPart(ls, st), FirstSection(Strip(clean_text(At(ls, st.i)))))

\* after the loop: if current: recs.append(current)
Finish(st) == Flush(st.current, st.recs)

RecKey(r) == <<r.Number, r.Title>>

RECURSIVE DedupFrom(_, _, _)
\* the loop over recs filling the dict unique, then list(unique.values())
DedupFrom(rs, n, unique) ==
    IF n > Len(rs) THEN [k \in 1..Len(unique) |-> unique[k].val]
    ELSE DedupFrom(rs, n + 1,
                   IF ~DictHas(unique, RecKey(rs[n]))
                   THEN DictSet(unique, RecKey(rs[n]), rs[n])
                   ELSE unique)

RECURSIVE DedupFrom_LastWins(_, _, _)
DedupFrom_LastWins(rs, n, unique) ==
    IF n > Len(rs) THEN [k \in 1..Len(unique) |-> unique[k].val]
    ELSE DedupFrom_LastWins(rs, n + 1, DictSet(unique, RecKey(rs[n]), rs[n]))

Deduplicate_LastWins(rs) == DedupFrom_LastWins(rs, 1, <<>>)

Deduplicate(rs) == DedupFrom(rs, 1, <<>>)

RECURSIVE RunLoop(_, _)
Locals(n) == [i |-> n.i, current |-> n.current, recs |-> n.recs]

RunLoop(ls, st) ==
    IF st.i < Len(ls) THEN RunLoop(ls, Locals(LoopBody(ls, st))) ELSE st

\* the whole function, on a text
extract_recommendations(t) ==
    Deduplicate(Finish(RunLoop(SplitLines(t), [i |-> 0, current |-> <<>>, recs |-> <<>>])))

----------------------------------------------------------------------------
(* The texts given to extract_recommendations *)

HA   == <<"1", ".", "1", " ", "T", " ", "(Automated)">>
HL   == <<"1", ".", "1", " ", "(L1)", " ", "T", " ", "(Manual)">>
HN   == <<"1", ".", "2", " ", "T">>
S1   == <<"2", " ", "(Manual)", " ", "T">>
PA   == <<"Profile Applicability:">>
DE   == <<"Description:">>
BODY == <<"Does Y">>
PG   == <<"Page", " ", "3">>

LineKinds == {HA, HN, S1, PA, DE, BODY, PG}

ExampleLines == << <<"1", ".", "2", ".", "2", " ", "(Automated)", " ", "Ensure X">>,
                   <<"Profile Applicability:">>,
                   <<"Level 1 - Server">>,
                   <<"Description:">>,
                   <<"Does Y">>,
                   <<"1", ".", "2", ".", "3", " ", "(Manual)", " ", "Ensure Z">> >>

\* a heading, n filler lines, "Profile Applicability:", a tail
LookaheadLines ==
    {<<h>> \o [k \in 1..n |-> f] \o <<PA>> \o tl :
        h \in {HA, HL, HN}, f \in {<<>>, BODY}, n \in 0..(LookAhead + 1),
        tl \in {<<>>, <<BODY>>, <<DE, BODY>>}}

InputTexts ==
    {JoinWith(<<"\n">>, ls) :
        ls \in SeqsUpTo(LineKinds, MaxLines) \cup LookaheadLines \cup {ExampleLines}}

----------------------------------------------------------------------------
(* The specification of the parser: one action per loop iteration, then    *)
(* the finalisation and the deduplication.                                 *)

\* the variables of the other functions, when they do not run
CleanIdle == cs = <<>> /\ c1 = <<>> /\ c2 = <<>>

ParserIdle ==
    /\ lines = <<>> /\ i = 0 /\ current = <<>> /\ recs = <<>> /\ result = <<>>
    /\ lastSec = <<>> /\ examined = <<>>

ExcelIdle ==
    /\ wrecs = <<>> /\ categories = <<>> /\ cats = <<>> /\ sorted_cats = <<>>
    /\ sheets = <<>> /\ saved = FALSE

MainIdle ==
    /\ pdf = <<>> /\ config_present = TRUE /\ start_page = 1 /\ os_type = ""
    /\ filename = "" /\ title = <<>> /\ text = <<>>

InitParse ==
    /\ \E t \in InputTexts : lines = SplitLines(t)
    /\ i = 0 /\ current = <<>> /\ recs = <<>> /\ result = <<>>
    /\ lastSec = <<>> /\ examined = <<>>
    /\ pc = "scan"
    /\ CleanIdle /\ ExcelIdle /\ MainIdle

Scan ==
    /\ pc = "scan" /\ i < Len(lines)
    /\ \E n \in {LoopBody(lines, [i |-> i, current |-> current, recs |-> recs])} :
           /\ i' = n.i
           /\ current' = n.current
           /\ recs' = n.recs
           /\ lastSec' = n.sec
    /\ examined' = Append(examined, i)
    /\ UNCHANGED <<pc, lines, result, cleanVars, excelVars, mainVars>>

Finalize ==
    /\ pc = "scan" /\ i >= Len(lines)
    /\ recs' = Finish([i |-> i, current |-> current, recs |-> recs])
    /\ pc' = "dedup"
    /\ UNCHANGED <<lines, i, current, result, lastSec, examined,
                   cleanVars, excelVars, mainVars>>

Dedup ==
    /\ pc = "dedup"
    /\ result' = Deduplicate(recs)
    /\ pc' = "done"
    /\ UNCHANGED <<lines, i, current, recs, lastSec, examined,
                   cleanVars, excelVars, mainVars>>

NextParse == Scan \/ Finalize \/ Dedup

SpecParse == InitParse /\ [][NextParse]_vars

----------------------------------------------------------------------------
(* The specification of clean_text: a line, cleaned once and once more *)

CleanTokens == {"Page", "page", " ", "1", "x"}

InitClean ==
    /\ cs \in SeqsUpTo(CleanTokens, MaxLineLen)
    /\ c1 = <<>> /\ c2 = <<>>
    /\ pc = "clean"
    /\ ParserIdle /\ ExcelIdle /\ MainIdle

CleanOnce ==
    /\ pc = "clean"
    /\ c1' = clean_text(cs)
    /\ pc' = "again"
    /\ UNCHANGED <<cs, c2, parseVars, excelVars, mainVars>>

CleanAgain ==
    /\ pc = "again"
    /\ c2' = clean_text(c1)
    /\ pc' = "done"
    /\ UNCHANGED <<cs, c1, parseVars, excelVars, mainVars>>

NextClean == CleanOnce \/ CleanAgain

SpecClean == InitClean /\ [][NextClean]_vars

----------------------------------------------------------------------------
(* int(str) and str(int) *)

DigitValue(t) == (CHOOSE d \in 1..10 : DigitToks[d] = t) - 1

RECURSIVE StrToInt(_)
StrToInt(s) ==
    IF s = <<>> THEN 0
    ELSE 10 * StrToInt(SubSeq(s, 1, Len(s) - 1)) + DigitValue(s[Len(s)])

\* whether int(s) returns: one digit or more, nothing else
IsIntStr(s) == s # <<>> /\ \A k \in 1..Len(s) : IsDigit(s[k])

RECURSIVE IntToStr(_)
IntToStr(n) ==
    IF n < 10 THEN <<DigitToks[n + 1]>>
    ELSE IntToStr(n \div 10) \o <<DigitToks[(n % 10) + 1]>>

\* s.split('.')[0]
RECURSIVE FirstSegment(_)
FirstSegment(s) ==
    IF s = <<>> \/ Head(s) = "." THEN <<>> ELSE <<Head(s)>> \o FirstSegment(Tail(s))

----------------------------------------------------------------------------
(* write_excel and create_sheet.  A category name is a sequence of         *)
(* one-character tokens, so that Len is len().                             *)

ADDITIONAL == <<"A", "D", "D", "I", "T", "I", "O", "N", "A", "L">>

get_category(number, categs) == DictGet(categs, FirstSegment(number), ADDITIONAL)

\* cats[cat].append(rec) on the defaultdict
GroupOne(cs0, rec, categs) ==
    LET cat == get_category(rec.Number, categs)
    IN  DictSet(cs0, cat, Append(DictGet(cs0, cat, <<>>), rec))

RECURSIVE GroupAll(_, _, _)
GroupAll(cs0, rs, categs) ==
    IF rs = <<>> THEN cs0 ELSE GroupAll(GroupOne(cs0, Head(rs), categs), Tail(rs), categs)

Sentinel == 999

get_section_number_AdditionalLast(cs0, cat_name) ==
    IF cat_name = ADDITIONAL \/ DictGet(cs0, cat_name, <<>>) = <<>> THEN Sentinel
    ELSE StrToInt(FirstSegment(DictGet(cs0, cat_name, <<>>)[1].Number))

get_section_number(cs0, cat_name) ==
    IF DictGet(cs0, cat_name, <<>>) = <<>> THEN Sentinel
    ELSE LET first == FirstSegment(DictGet(cs0, cat_name, <<>>)[1].Number)
         IN  IF IsIntStr(first) THEN StrToInt(first) ELSE Sentinel

RECURSIVE InsertSorted(_, _, _)
\* x put after every element of the sorted list whose key is not larger
InsertSorted(cs0, sorted, x) ==
    IF sorted = <<>> THEN <<x>>
    ELSE IF get_section_number(cs0, Head(sorted)) <= get_section_number(cs0, x)
         THEN <<Head(sorted)>> \o InsertSorted(cs0, Tail(sorted), x)
         ELSE <<x>> \o sorted

RECURSIVE StableSort(_, _, _)
\* sorted(names, key=get_section_number): stable
StableSort(cs0, names, acc) ==
    IF names = <<>> THEN acc
    ELSE StableSort(cs0, Tail(names), InsertSorted(cs0, acc, Head(names)))

\* sorted(cats.keys(), key=...) without the empty categories
SortCats(cs0) ==
    LET keys == [k \in 1..Len(cs0) |-> cs0[k].key]
        NotEmpty(c) == DictGet(cs0, c, <<>>) # <<>>
    IN  SelectSeq(StableSort(cs0, keys, <<>>), NotEmpty)

MaxTitle == 31
KeptChars == 28

\* the sheet name of create_sheet (and ref_name of create_score_sheet)
SheetName(idx, cat_name) ==
    LET name == IntToStr(idx) \o <<".", " ">> \o cat_name
    IN  IF Len(name) > MaxTitle
        THEN IntToStr(idx) \o <<".", " ">> \o Slice(cat_name, 0, Min(KeptChars, Len(cat_name)))
        ELSE name

\* the sheet create_sheet adds: its name and the Number of each data row
create_sheet(cat_name, rs, idx) ==
    [title |-> SheetName(idx, cat_name), rows |-> [k \in 1..Len(rs) |-> rs[k].Number]]

\* the score sheet: its name and the sheet each row refers to
create_score_sheet(names, num) ==
    [title |-> IntToStr(num) \o <<".", " ", "S", "C", "O", "R", "E">>,
     rows  |-> [k \in 1..Len(names) |-> SheetName(k, names[k])]]

\* the sheets of the workbook write_excel saves
write_excel(rs, categs) ==
    LET cs0 == GroupAll(<<>>, rs, categs)
        sc  == SortCats(cs0)
    IN  [k \in 1..Len(sc) |-> create_sheet(sc[k], DictGet(cs0, sc[k], <<>>), k)]
        \o <<create_score_sheet(sc, Len(sc) + 1)>>

----------------------------------------------------------------------------
(* The record lists and category mappings given to write_excel *)

Rec(number) == [Number |-> number, Level |-> <<>>, Title |-> <<"T">>, secs |-> <<>>]

CatName(c, n) == [k \in 1..n |-> IF k = 1 THEN c ELSE "x"]

Letters == <<"A", "B", "C", "D", "E", "F", "G", "H", "I", "J", "K", "L", "M", "N">>

\* prefixes 1..MaxCats, each with its own name of n characters
WideMapping(n) ==
    [k \in 1..MaxCats |-> [key |-> IntToStr(k), val |-> CatName(Letters[k], n)]]

\* the records 1.1, 2.1, ..., n.1
WideRecs(n) == [k \in 1..n |-> Rec(IntToStr(k) \o <<".", "1">>)]

SmallMappings ==
    { << [key |-> <<"1">>, val |-> CatName("A", 5)],
         [key |-> <<"2">>, val |-> CatName("B", 5)],
         [key |-> <<"3">>, val |-> CatName("C", 5)] >>,
      << [key |-> <<"1">>, val |-> CatName("A", 5)],
         [key |-> <<"3">>, val |-> CatName("C", 5)] >>,
      << [key |-> <<"1">>, val |-> CatName("A", 5)],
         [key |-> <<"2">>, val |-> CatName("A", 5)],
         [key |-> <<"3">>, val |-> CatName("C", 5)] >> }

SmallNumbers ==
    { <<"1", ".", "1">>, <<"1", ".", "2">>, <<"2", ".", "1">>, <<"3", ".", "1">>,
      <<"4", ".", "1">>, <<"0", "1", ".", "1">> }

NameLengths == {5, MaxTitle - 4, MaxTitle - 3, MaxTitle - 2}

ExcelInputs ==
    {[recs |-> [k \in 1..Len(ns) |-> Rec(ns[k])], categories |-> m] :
        ns \in SeqsUpTo(SmallNumbers, MaxRecs), m \in SmallMappings}
    \cup
    {[recs |-> WideRecs(n), categories |-> WideMapping(l)] :
        n \in 1..MaxCats, l \in NameLengths}

----------------------------------------------------------------------------
(* The specification of write_excel: the grouping loop, the sort, one      *)
(* create_sheet per category, then the score sheet and the save.           *)

Grouped == LET RECURSIVE Sum(_)
               Sum(k) == IF k = 0 THEN 0 ELSE Len(cats[k].val) + Sum(k - 1)
           IN  Sum(Len(cats))

InitExcel ==
    /\ \E x \in ExcelInputs : wrecs = x.recs /\ categories = x.categories
    /\ cats = <<>> /\ sorted_cats = <<>> /\ sheets = <<>> /\ saved = FALSE
    /\ pc = "group"
    /\ CleanIdle /\ ParserIdle /\ MainIdle

Group ==
    /\ pc = "group" /\ Grouped < Len(wrecs)
    /\ cats' = GroupOne(cats, wrecs[Grouped + 1], categories)
    /\ UNCHANGED <<pc, wrecs, categories, sorted_cats, sheets, saved,
                   cleanVars, parseVars, mainVars>>

SortCategories ==
    /\ pc = "group" /\ Grouped = Len(wrecs)
    /\ sorted_cats' = SortCats(cats)
    /\ pc' = "sheets"
    /\ UNCHANGED <<wrecs, categories, cats, sheets, saved,
                   cleanVars, parseVars, mainVars>>

CreateSheet ==
    /\ pc = "sheets" /\ Len(sheets) < Len(sorted_cats)
    /\ LET idx == Len(sheets) + 1
           cat == sorted_cats[idx]
       IN  sheets' = Append(sheets, create_sheet(cat, DictGet(cats, cat, <<>>), idx))
    /\ UNCHANGED <<pc, wrecs, categories, cats, sorted_cats, saved,
                   cleanVars, parseVars, mainVars>>

ScoreAndSave ==
    /\ pc = "sheets" /\ Len(sheets) = Len(sorted_cats)
    /\ sheets' = Append(sheets, create_score_sheet(sorted_cats, Len(sorted_cats) + 1))
    /\ saved' = TRUE
    /\ pc' = "saved"
    /\ UNCHANGED <<wrecs, categories, cats, sorted_cats,
                   cleanVars, parseVars, mainVars>>

NextExcel == Group \/ SortCategories \/ CreateSheet \/ ScoreAndSave

SpecExcel == InitExcel /\ [][NextExcel]_vars

----------------------------------------------------------------------------
(* main and the functions that read the document and the configuration.    *)
(* A function that can raise returns [raised, val].  The document is       *)
(* [readable, pages]; a page is what its extract_text() returns:           *)
(* [none |-> TRUE] for None, else [none |-> FALSE, text |-> the text].     *)

NoText == [none |-> TRUE, text |-> <<>>]
PageOf(t) == [none |-> FALSE, text |-> t]

Raise == [raised |-> TRUE, val |-> <<>>]
Return(v) == [raised |-> FALSE, val |-> v]

\* line.lower().startswith("v") and "-" in line, on the tokens of the model
VersionToks == {"v1.0.0 - 01-01-2024"}
DashToks == {"v1.0.0 - 01-01-2024", "Level 1 - Server"}
IsVersionLine(line) ==
    /\ line # <<>> /\ line[1] \in VersionToks
    /\ \E k \in 1..Len(line) : line[k] \in DashToks

RECURSIVE TitleLines(_)
\* the stripped lines before the version line
TitleLines(ls) ==
    IF ls = <<>> \/ IsVersionLine(Head(ls)) THEN <<>>
    ELSE <<Strip(Head(ls))>> \o TitleLines(Tail(ls))

RECURSIVE VersionOf(_)
VersionOf(ls) ==
    IF ls = <<>> THEN <<>>
    ELSE IF IsVersionLine(Head(ls)) THEN Strip(Head(ls))
    ELSE VersionOf(Tail(ls))

\* raises when the document cannot be opened, has no page, or the first
\* page's extract_text() is None (None has no splitlines)
extract_title_version(doc) ==
    IF ~doc.readable THEN Raise
    ELSE IF doc.pages = <<>> THEN Raise
    ELSE IF doc.pages[1].none THEN Raise
    ELSE LET ls == SplitLines(doc.pages[1].text)
             t  == JoinWith(<<" ">>, TitleLines(ls))
         IN  Return([title   |-> IF t # <<>> THEN t ELSE <<"CIS Benchmark">>,
                     version |-> VersionOf(ls)])

\* the configuration file: selector -> (prefix -> category name)
Config ==
    << [key |-> "default",
        val |-> << [key |-> <<"1">>, val |-> CatName("A", 5)],
                   [key |-> <<"2">>, val |-> CatName("B", 5)] >>],
       [key |-> "debian",
        val |-> << [key |-> <<"1">>, val |-> CatName("D", KeptChars + 2)],
                   [key |-> <<"3">>, val |-> CatName("E", 5)] >>],
       [key |-> "windows_server",
        val |-> << [key |-> <<"2">>, val |-> CatName("W", 5)] >>] >>

\* the substring test "pat in s" on token sequences
HasSub(s, pat) ==
    \E k \in 0..(Len(s) - Len(pat)) : SubSeq(s, k + 1, k + Len(pat)) = pat

\* the selector detected in pdf_file.stem.lower()
DetectOs(stem) ==
    IF HasSub(stem, <<"debian">>) THEN "debian"
    ELSE IF HasSub(stem, <<"ubuntu">>) THEN "ubuntu"
    ELSE IF HasSub(stem, <<"windows", "_", "server">>)
            \/ HasSub(stem, <<"windows", " ", "server">>) THEN "windows_server"
    ELSE IF HasSub(stem, <<"windows">>) THEN "windows"
    ELSE "default"

extract_category_names_DefaultWhenMissing(stem, os, present) ==
    IF ~present THEN Return(DictGet(Config, "default", <<>>))
    ELSE LET sel == IF os = "" THEN DetectOs(stem) ELSE os
         IN  Return(DictGet(Config, sel, DictGet(Config, "default", <<>>)))

\* a missing file: the except branch reads config, which is not bound, and
\* that raises; os = "" stands for os_type None
extract_category_names(stem, os, present) ==
    IF ~present THEN Raise
    ELSE LET sel == IF os = "" THEN DetectOs(stem) ELSE os
         IN  Return(DictGet(Config, sel, DictGet(Config, "default", <<>>)))

\* s[a:] for any integer a
SliceFrom(s, a) ==
    LET from == IF a < 0 THEN Max(Len(s) + a, 0) ELSE Min(a, Len(s))
    IN  Slice(s, from, Len(s))

\* page.extract_text() or ""
TextOrEmpty(page) == IF page.none THEN <<>> ELSE page.text

read_pdf(doc, start) ==
    IF ~doc.readable THEN Raise
    ELSE IF start > Len(doc.pages) THEN Raise
    ELSE LET ps == SliceFrom(doc.pages, start - 1)
         IN  Return(JoinWith(<<"\n">>, [k \in 1..Len(ps) |-> TextOrEmpty(ps[k])]))

----------------------------------------------------------------------------
(* The runs of main *)

CoverText == <<"CIS", " ", "Title", "\n", "v1.0.0 - 01-01-2024", "\n", "x">>
BodyText  == JoinWith(<<"\n">>, <<HA, PA, BODY, S1, HN, S1, PA, DE, PG, BODY>>)

PageResults == {NoText, PageOf(<<>>), PageOf(CoverText), PageOf(BodyText)}

Stems == { <<"cis", "_", "debian", "_", "12">>,
           <<"cis", "_", "ubuntu">>,
           <<"cis", "_", "windows", " ", "server">>,
           <<"cis", "_", "windows", "_", "11">>,
           <<"benchmark">> }

InitMain ==
    /\ pdf \in [readable : BOOLEAN, pages : SeqsUpTo(PageResults, MaxPages)]
    /\ config_present \in BOOLEAN
    /\ start_page \in 0..(MaxPages + 1)
    /\ os_type \in {"", "debian"}
    /\ filename \in Stems
    /\ title = <<>> /\ text = <<>>
    /\ categories = <<>> /\ result = <<>> /\ sheets = <<>> /\ saved = FALSE
    /\ wrecs = <<>> /\ cats = <<>> /\ sorted_cats = <<>>
    /\ lines = <<>> /\ i = 0 /\ current = <<>> /\ recs = <<>>
    /\ lastSec = <<>> /\ examined = <<>>
    /\ pc = "title"
    /\ CleanIdle

MainFrame == UNCHANGED <<pdf, config_present, start_page, os_type, filename,
                         cleanVars, wrecs, cats, sorted_cats,
                         lines, i, current, recs, lastSec, examined>>

ExtractTitleVersion ==
    /\ pc = "title"
    /\ LET r == extract_title_version(pdf)
       IN  IF r.raised THEN pc' = "aborted" /\ UNCHANGED title
           ELSE pc' = "categories" /\ title' = <<r.val>>
    /\ UNCHANGED <<text, categories, result, sheets, saved>>
    /\ MainFrame

ExtractCategoryNames ==
    /\ pc = "categories"
    /\ LET r == extract_category_names(filename, os_type, config_present)
       IN  IF r.raised THEN pc' = "aborted" /\ UNCHANGED categories
           ELSE pc' = "read" /\ categories' = r.val
    /\ UNCHANGED <<title, text, result, sheets, saved>>
    /\ MainFrame

ReadPdf ==
    /\ pc = "read"
    /\ LET r == read_pdf(pdf, start_page)
       IN  IF r.raised THEN pc' = "aborted" /\ UNCHANGED text
           ELSE pc' = "extract" /\ text' = r.val
    /\ UNCHANGED <<title, categories, result, sheets, saved>>
    /\ MainFrame

ExtractRecommendations ==
    /\ pc = "extract"
    /\ result' = extract_recommendations(text)
    /\ pc' = "write"
    /\ UNCHANGED <<title, text, categories, sheets, saved>>
    /\ MainFrame

WriteExcel ==
    /\ pc = "write"
    /\ sheets' = write_excel(result, categories)
    /\ saved' = TRUE
    /\ pc' = "done"
    /\ UNCHANGED <<title, text, categories, result>>
    /\ MainFrame

NextMain ==
    ExtractTitleVersion \/ ExtractCategoryNames \/ ReadPdf
        \/ ExtractRecommendations \/ WriteExcel

SpecMain == InitMain /\ [][NextMain]_vars

----------------------------------------------------------------------------
(* Properties of the parser (checked under SpecParse) *)

\* the line the outer loop sees at index h
Normalized(h) == Strip(clean_text(At(lines, h)))

\* the title of the heading at line h with its continuation lines
AssembledTitle(h) ==
    TitleMatch(Normalized(h))[1].Title \o TitleRest(lines, h + 1, TitleEnd(lines, h))

AssembledHeading(h) ==
    LET m == TitleMatch(Normalized(h))[1]
    IN  m.Number \o <<" ">> \o m.Level \o <<" ">> \o AssembledTitle(h)

\* "Profile Applicability:" is on one of the n lines after line h
ProfileWithin(h, n) ==
    \E k \in (h + 1)..(h + n) :
        k < Len(lines) /\ Contains(At(lines, k), "Profile Applicability:")

RecordsOf(h) ==
    {n \in 1..Len(result) :
        /\ result[n].Number = TitleMatch(Normalized(h))[1].Number
        /\ result[n].Title = AssembledTitle(h)}

\* C1: every heading line (a dotted number of two segments or more) that has
\* "Profile Applicability:" on one of the 10 lines after it and an automation
\* tag in its assembled heading yields exactly one returned record with its
\* number and assembled title.
C1_HeadingWithinTenLinesYieldsRecord ==
    pc = "done" =>
        \A h \in 0..(Len(lines) - 1) :
            (/\ IsHeading(Normalized(h))
             /\ ProfileWithin(h, 10)
             /\ HasAutomationTag(AssembledHeading(h)))
            => Cardinality(RecordsOf(h)) = 1

\* the number of dotted segments of a number, counted on its dots
Segments(num) == 1 + Cardinality({k \in 1..Len(num) : num[k] = "."})

\* the leading digits of a line
LeadingNumber(line) == SubSeq(line, 1, RunEnd(line, 1, TRUE) - 1)

\* C2: every returned record has a number of two dotted segments or more and
\* an automation tag in its heading (number, level tag, title); a line with a
\* single-segment number, or a heading whose assembled heading has no
\* automation tag, yields no record.
C2_RecordsAreRealTests ==
    pc = "done" =>
        /\ \A n \in 1..Len(result) :
               /\ Segments(result[n].Number) >= 2
               /\ \E t \in {"(Automated)", "(Manual)"} :
                      Contains(FullTitleLine(result[n]), t)
        /\ \A h \in 0..(Len(lines) - 1) :
               /\ (LeadingNumber(Normalized(h)) # <<>> /\ ~IsHeading(Normalized(h)))
                  => \A n \in 1..Len(result) :
                         result[n].Number # LeadingNumber(Normalized(h))
               /\ (IsHeading(Normalized(h)) /\ ~HasAutomationTag(AssembledHeading(h)))
                  => RecordsOf(h) = {}

C2_Witness ==
    /\ pc = "done"
    /\ \E h \in 0..(Len(lines) - 2) : At(lines, h) = S1 /\ At(lines, h + 1) = PA
    /\ \E h \in 0..(Len(lines) - 2) : At(lines, h) = HN /\ At(lines, h + 1) = PA

ExampleResult(ttl) ==
    /\ Len(result) = 1
    /\ result[1].Number = <<"1", ".", "2", ".", "2">>
    /\ result[1].Title = ttl
    /\ DictGet(result[1].secs, "Description", <<"(not set)">>) = <<"Does Y">>

\* C3 as stated: on the example lines the one record returned is 1.2.2 with
\* the title "Ensure X" and the Description "Does Y".
C3_ExampleTitleWithoutTag ==
    (pc = "done" /\ lines = ExampleLines) => ExampleResult(<<"Ensure X">>)

\* C3 (amended): on the example lines the one record returned is 1.2.2 with
\* the title "(Automated) Ensure X" and the Description "Does Y".
C3_ExampleTitleKeepsTag ==
    (pc = "done" /\ lines = ExampleLines)
        => ExampleResult(<<"(Automated)", " ", "Ensure X">>)

C3_Witness == pc = "done" /\ lines = ExampleLines /\ Len(result) = 1

\* a section label or a heading: what ends a section's content
EndsSection(k) ==
    \/ \E n \in 1..9 : Normalized(k) # <<>> /\ Normalized(k)[1] = SECTIONS[n]
    \/ IsHeading(Normalized(k))

NonEmpty(l) == l # <<>>

SectionStored ==
    lastSec # <<>> =>
        LET s == lastSec[1]
            between == [k \in 1..(s.boundary - s.label - 1) |-> Normalized(s.label + k)]
        IN  /\ s.label < s.boundary /\ s.boundary <= Len(lines)
            /\ \A k \in (s.label + 1)..(s.boundary - 1) : ~EndsSection(k)
            /\ s.boundary < Len(lines) => EndsSection(s.boundary)
            /\ s.content = JoinWith(<<" ">>, SelectSeq(between, NonEmpty))
            /\ current # <<>>
            /\ DictGet(current[1].secs, s.key, <<"(not set)">>) = s.content
            /\ i = s.boundary

BoundaryExamined ==
    (pc = "scan" /\ lastSec # <<>> /\ i < Len(lines)) =>
        LET b == lastSec[1].boundary
        IN  /\ examined' = Append(examined, b)
            /\ StartsWithSection(Normalized(b))
                   => (lastSec' # <<>> /\ lastSec'[1].label = b)
            /\ IsHeading(Normalized(b)) => recs' = Append(recs, current[1])

\* C4: a section's stored content is exactly the non-blank lines strictly
\* between its label line and the first later line that starts with a section
\* label or is a heading (or the end of input); that boundary line is not in
\* the content, and it is the next line the outer scan examines and processes
\* (as a section label, or as a heading that finalizes the record).
C4_SectionBoundary == []SectionStored /\ [][BoundaryExamined]_vars

C4_Witness ==
    /\ lastSec # <<>>
    /\ lastSec[1].content # <<>>
    /\ lastSec[1].boundary < Len(lines)
    /\ IsHeading(Normalized(lastSec[1].boundary))
    /\ Len(examined) >= 2
    /\ StartsWithSection(Normalized(examined[Len(examined) - 1]))
    /\ StartsWithSection(Normalized(examined[Len(examined)]))

\* the indexes of recs that are the first with their (Number, Title)
FirstOccurrences ==
    {n \in 1..Len(recs) : \A j \in 1..(n - 1) : RecKey(recs[j]) # RecKey(recs[n])}

\* C5: the returned list has no two records with the same (Number, Title);
\* it is the list of the finalized records that are the first with their
\* pair, each unchanged, in the order in which they were finalized.
C5_DedupFirstWins ==
    pc = "done" =>
        /\ \A a, b \in 1..Len(result) :
               RecKey(result[a]) = RecKey(result[b]) => a = b
        /\ Len(result) = Cardinality(FirstOccurrences)
        /\ \A a \in 1..Len(result) :
               \E n \in FirstOccurrences :
                   /\ result[a] = recs[n]
                   /\ Cardinality({j \in FirstOccurrences : j < n}) = a - 1

C5_Witness ==
    /\ pc = "done"
    /\ \E a, b \in 1..Len(recs) :
           a < b /\ RecKey(recs[a]) = RecKey(recs[b]) /\ recs[a].secs # recs[b].secs
    /\ Len(result) >= 1

----------------------------------------------------------------------------
(* Properties of clean_text (checked under SpecClean) *)

\* the line holds a "Page <integer>" marker: the word in any case after a
\* word boundary, one blank or more, one digit or more, a word boundary
HasPageMarker(s) ==
    \E p \in 1..Len(s) : \E a \in (p + 2)..Len(s) : \E b \in (a + 1)..(Len(s) + 1) :
        /\ s[p] \in {"Page", "page", "PAGE"}
        /\ p = 1 \/ ~WordEnd(s[p - 1])
        /\ \A k \in (p + 1)..(a - 1) : s[k] = " "
        /\ \A k \in a..(b - 1) : IsDigit(s[k])
        /\ b = Len(s) + 1 \/ ~WordStart(s[b])

PageWords(s) == Cardinality({k \in 1..Len(s) : s[k] \in {"Page", "page", "PAGE"}})

\* C10 as stated: cleaning a cleaned line changes nothing, and a cleaned line
\* holds no "Page <integer>" marker.
C10_CleanIdempotent ==
    pc = "done" => (c2 = c1 /\ ~HasPageMarker(c1))

\* C10 (amended): for a line with at most one word "Page" (in any case),
\* cleaning the cleaned line changes nothing and the cleaned line holds no
\* "Page <integer>" marker.
C10_CleanIdempotentOnePage ==
    (pc = "done" /\ PageWords(cs) <= 1) => (c2 = c1 /\ ~HasPageMarker(c1))

C10_Witness ==
    pc = "done" /\ PageWords(cs) = 1 /\ HasPageMarker(cs) /\ c1 # cs /\ c1 # <<>>

----------------------------------------------------------------------------
(* Properties of write_excel (checked under SpecExcel) *)

LeadingValue(r) == StrToInt(FirstSegment(r.Number))

\* the category a record belongs to: the name mapped to its first segment,
\* ADDITIONAL when there is none
CategoryOf(r) ==
    IF \E n \in 1..Len(categories) : categories[n].key = FirstSegment(r.Number)
    THEN (CHOOSE e \in {categories[n] : n \in 1..Len(categories)} :
              e.key = FirstSegment(r.Number)).val
    ELSE <<"A", "D", "D", "I", "T", "I", "O", "N", "A", "L">>

\* the index in wrecs of the first record of a category
FirstIndex(cat) == CHOOSE n \in 1..Len(wrecs) :
    CategoryOf(wrecs[n]) = cat /\ \A j \in 1..(n - 1) : CategoryOf(wrecs[j]) # cat

InCategory(cat) == {n \in 1..Len(wrecs) : CategoryOf(wrecs[n]) = cat}

NCats == Len(sheets) - 1

\* the category of the k-th sheet: that of the record of its first row
SheetCat(k) ==
    CategoryOf(CHOOSE r \in {wrecs[n] : n \in 1..Len(wrecs)} : r.Number = sheets[k].rows[1])

SheetsPartitionRecords ==
    /\ NCats = Cardinality({CategoryOf(wrecs[n]) : n \in 1..Len(wrecs)})
    /\ \A k \in 1..NCats :
           /\ sheets[k].rows # <<>>
           /\ sorted_cats[k] = SheetCat(k)
           /\ Len(sheets[k].rows) = Cardinality(InCategory(SheetCat(k)))
           /\ \A n \in 1..Len(sheets[k].rows) :
                  \E m \in InCategory(SheetCat(k)) :
                      /\ wrecs[m].Number = sheets[k].rows[n]
                      /\ Cardinality({j \in InCategory(SheetCat(k)) : j < m}) = n - 1
    /\ \A a, b \in 1..NCats : SheetCat(a) = SheetCat(b) => a = b

\* C6 as stated: the category sheets are in ascending order of the leading
\* segment of their categories, and ADDITIONAL, the category of the
\* records with an unmapped first segment, is the last category sheet.
C6_AdditionalAlwaysLast ==
    pc = "saved" =>
        /\ SheetsPartitionRecords
        /\ \A a, b \in 1..NCats :
               a < b => LeadingValue(wrecs[FirstIndex(SheetCat(a))])
                            <= LeadingValue(wrecs[FirstIndex(SheetCat(b))])
        /\ \A k \in 1..NCats : SheetCat(k) = ADDITIONAL => k = NCats

\* C6 (amended): the records are grouped by category, those with an unmapped
\* first segment under ADDITIONAL; the category sheets are in ascending order
\* of the leading segment of each category's first record, categories with
\* equal values in the order of their first records; ADDITIONAL is ordered by
\* the same key as any other category and the score sheet comes last.
C6_SheetsOrderedByFirstRecord ==
    pc = "saved" =>
        /\ SheetsPartitionRecords
        /\ \A a, b \in 1..NCats :
               a < b =>
                   LET va == LeadingValue(wrecs[FirstIndex(SheetCat(a))])
                       vb == LeadingValue(wrecs[FirstIndex(SheetCat(b))])
                   IN  va < vb \/ (va = vb /\ FirstIndex(SheetCat(a)) < FirstIndex(SheetCat(b)))
        /\ sheets[Len(sheets)].title = IntToStr(NCats + 1) \o <<".", " ", "S", "C", "O", "R", "E">>

C6_Witness ==
    /\ pc = "saved"
    /\ NCats >= 2
    /\ \E k \in 1..(NCats - 1) : SheetCat(k) = ADDITIONAL
    /\ \E k \in 1..NCats : Len(sheets[k].rows) >= 2

\* C7: the name of every category sheet is the ordinal prefix ("<n>. ")
\* followed by the category name or its first 28 characters, and is at most
\* 31 characters long.
C7_SheetNameAtMost31 ==
    \A k \in 1..Len(sheets) :
        (pc = "sheets" \/ k < Len(sheets)) =>
            /\ Len(sheets[k].title) <= 31
            /\ \/ sheets[k].title = IntToStr(k) \o <<".", " ">> \o sorted_cats[k]
               \/ sheets[k].title = IntToStr(k) \o <<".", " ">> \o SubSeq(sorted_cats[k], 1, 28)

----------------------------------------------------------------------------
(* Properties of main (checked under SpecMain) *)

\* C8: a page whose text extraction yields no text never aborts the run:
\* with a readable document, a configuration file and a start page within
\* the document, the run is never aborted, whichever pages yield no text.
C8_NoTextNeverAborts ==
    (/\ pdf.readable
     /\ config_present
     /\ Len(pdf.pages) >= 1
     /\ start_page >= 1 /\ start_page <= Len(pdf.pages))
    => pc # "aborted"

FatalError ==
    \/ ~config_present
    \/ ~pdf.readable
    \/ start_page > Len(pdf.pages)

====
